---- MODULE Spec2Model ----
(***************************************************************************)
(* Canvas minimap plugin (src/unnamed/part_002, the revision with          *)
(* navigation strategies and the viewport overlay): the bounds             *)
(* aggregation and redraw (renderMinimap), the viewport tracker            *)
(* (renderCanvasViewport), the click handler installed by setupMinimap,    *)
(* and the lifecycle (setupMinimap / unloadMinimap / reloadMinimap and the *)
(* handlers registered in onload).                                         *)
(*                                                                         *)
(* Coordinates are JavaScript numbers in the code; the model uses integers.*)
(* The only division on the modelled paths is the box centre passed to     *)
(* panTo, which is kept in half units (fields x2, y2 hold twice the value).*)
(***************************************************************************)
EXTENDS Integers, Sequences, FiniteSets

----------------------------------------------------------------------------
(* Bounds of the model and constants of the program *)

\* Node coordinates range over MinCoord..MaxCoord in x and over 0..1 in y.
MaxCoord == 1
MinCoord == 0 - 1
\* The number of times patchCanvas may wrap the host prototype in one run.
MaxPatches == 2
\* The number of host mutations (add / move / resize / remove node) in one run.
MaxHostOps == 1
\* DEFAULT_SETTINGS.margin, .width, .height, .fontSize
DefaultMargin == 100
DefaultWidth == 400
DefaultHeight == 300
DefaultFontSize == 10

Views == {"A", "B"}            \* the diagram (canvas) views of the workspace
NoView == "none"               \* a view that is not a canvas is active
NodeIds == {"a", "g"}          \* "g" is a group node, "a" a leaf node
Xs == MinCoord..MaxCoord
Ys == {0, 1}
Strategies == {"PAN", "ZOOM", "NONE"}
Sides == {"left", "right", "top", "bottom"}   \* the side tokens sidePositionOf knows
Undefined == "undefined"       \* the value of a property an object does not have

Min(a, b) == IF a < b THEN a ELSE b
Max(a, b) == IF a > b THEN a ELSE b

----------------------------------------------------------------------------
(* Geometry primitives *)

Vector2(x, y) == [x |-> x, y |-> y]

lenSq(a) == a.x * a.x + a.y * a.y

BoundingBox(min_x, min_y, max_x, max_y) ==
    [minX |-> min_x, minY |-> min_y, maxX |-> max_x, maxY |-> max_y]

\* new BoundingBox(): every parameter defaults to 0
DefaultBoundingBox == BoundingBox(0, 0, 0, 0)

\* BoundingBox.fromRect of an SVGRect {x, y, width, height}
fromRect(r) == BoundingBox(r.x, r.y, r.x + r.width, r.y + r.height)

width(b) == b.maxX - b.minX
height(b) == b.maxY - b.minY

contains(b, p) ==
    p.x >= b.minX /\ p.x <= b.maxX /\ p.y >= b.minY /\ p.y <= b.maxY

isValid(b) == b.minX < b.maxX /\ b.minY < b.maxY

----------------------------------------------------------------------------
(* The host's diagram objects *)

\* A canvas node as the plugin reads it: id, x, y, width, height and
\* unknownData.type ("group" for group nodes).
Node(id, x, y, w, h) ==
    [id |-> id, x |-> x, y |-> y, width |-> w, height |-> h,
     type |-> IF id = "g" THEN "group" ELSE "text",
     label |-> IF id = "g" THEN "G" ELSE ""]

\* A canvas edge as the plugin reads it: e.from.node / e.from.side,
\* e.to.node / e.to.side (the end nodes by id) and the property e.fromSide.
Edge(fromNode, fromSide, toNode, toSide, fromSideProperty) ==
    [from |-> [node |-> fromNode, side |-> fromSide],
     to |-> [node |-> toNode, side |-> toSide],
     fromSide |-> fromSideProperty]

\* node.bbox, the host's live bounding box of a node
NodeBBox(n) == BoundingBox(n.x, n.y, n.x + n.width, n.y + n.height)

\* canvas.nodes is a Map in insertion order: a sequence of nodes with distinct ids
HasNode(ns, id) == \E i \in 1..Len(ns) : ns[i].id = id
\* canvas.nodes.get(id) for an id that is a key
NodeGet(ns, id) == ns[CHOOSE i \in 1..Len(ns) : ns[i].id = id]

----------------------------------------------------------------------------
(* The overview surface: the '#_minimap_' div with its svg *)

\* A <rect> of the svg; absent x / y / width / height attributes are 0.
Rect(id, x, y, w, h, fill) ==
    [tag |-> "rect", id |-> id, x |-> x, y |-> y, width |-> w, height |-> h,
     fill |-> fill]

\* A <path> of the svg: the d3 link generator that made its curve and the two
\* ends of the curve, in half units.
Path(family, source, target) ==
    [tag |-> "path", id |-> "", family |-> family, source |-> source, target |-> target]

\* A <text> of the svg: a group's label with its font size, a fraction
\* <<numerator, denominator>>.
Text(text, x, y, font_size) ==
    [tag |-> "text", id |-> "", text |-> text, x |-> x, y |-> y, fontSize |-> font_size]

\* A <g> child of the svg with its elements in document order (the <g> that
\* wraps each node's rect and label inside minimap_fg is flattened).
Group(id, children) == [id |-> id, children |-> children]

NoViewBox == <<>>
\* No '#_minimap_' element in the view's container.
NoSurface == [exists |-> FALSE, viewBox |-> NoViewBox, layers |-> <<>>]
\* The div and svg as setupMinimap creates them, before the first redraw.
NewSurface == [exists |-> TRUE, viewBox |-> NoViewBox, layers |-> <<>>]

RECURSIVE Elements(_)
\* Every element of the svg's layers in document order, which is paint order.
Elements(layers) ==
    IF layers = <<>> THEN <<>>
    ELSE Head(layers).children \o Elements(Tail(layers))

IsRect(e) == e.tag = "rect"
\* svg.selectAll('rect'): every rect of the svg in document order
Flatten(layers) == SelectSeq(Elements(layers), IsRect)

IsNodeShape(r) == r.id # "minimap_viewport"
\* svg.selectAll('rect').filter(":not(#minimap_viewport)")
NodeShapes(svg) == SelectSeq(Flatten(svg.layers), IsNodeShape)

----------------------------------------------------------------------------
(* Bounds aggregation and redraw: renderMinimap *)

\* One step of nodes.forEach: expand the accumulator by the node's corners.
Expand(bbox, node) ==
    BoundingBox(Min(bbox.minX, node.x),
                Min(bbox.minY, node.y),
                Max(bbox.maxX, node.x + node.width),
                Max(bbox.maxY, node.y + node.height))

RECURSIVE Aggregate(_, _)
\* nodes.forEach over the node map, starting from the accumulator bbox
Aggregate(bbox, ns) ==
    IF ns = <<>> THEN bbox ELSE Aggregate(Expand(bbox, Head(ns)), Tail(ns))

\* The accumulator after the loop: it starts as new BoundingBox().
AggregateBounds(ns) == Aggregate(DefaultBoundingBox, ns)

\* ContentBounds with the margin left off the far edges, as a viewBox of
\* "minX - margin, minY - margin, width + margin, height + margin" would.
ContentBoundsNearMargin(ns, margin) ==
    BoundingBox(AggregateBounds(ns).minX - margin,
                AggregateBounds(ns).minY - margin,
                AggregateBounds(ns).maxX,
                AggregateBounds(ns).maxY)

\* this.canvas_bounds: the accumulator with the margin on each side
ContentBounds(ns, margin) ==
    BoundingBox(AggregateBounds(ns).minX - margin,
                AggregateBounds(ns).minY - margin,
                AggregateBounds(ns).maxX + margin,
                AggregateBounds(ns).maxY + margin)

\* The viewBox attribute: "minX minY width height" of canvas_bounds
ViewBoxOf(b) == <<b.minX, b.minY, width(b), height(b)>>

IsGroup(n) == n.type = "group"
IsChild(n) == n.type # "group"

\* The rect drawn for a node: its own x, y, width, height and id are copied.
GroupShape(n) == Rect(n.id, n.x, n.y, n.width, n.height, "groupColor")
ChildShape(n) == Rect(n.id, n.x, n.y, n.width, n.height, "nodeColor")

RECURSIVE MapShapes(_, _)
MapShapes(ns, kind) ==
    IF ns = <<>> THEN <<>>
    ELSE <<IF kind = "group" THEN GroupShape(Head(ns)) ELSE ChildShape(Head(ns))>>
         \o MapShapes(Tail(ns), kind)

\* settings.fontSize / Math.min(a, b) needs no rounding: a scale is kept as a
\* fraction <<numerator, denominator>>; a zero denominator is Infinity.
MinFrac(a, b) == IF a[1] * b[2] <= b[1] * a[2] THEN a ELSE b

\* font_size of a group label: fontSize / min(width / bbox width,
\* height / bbox height), bbox being the accumulator of the node loop.
LabelFontSize(bbox, st) ==
    LET scale == MinFrac(<<st.width, bbox.maxX - bbox.minX>>,
                         <<st.height, bbox.maxY - bbox.minY>>)
    IN <<st.fontSize * scale[2], scale[1]>>

\* The elements appended for a group: its rect, and its label when it has one.
GroupElements(n, bbox, st) ==
    <<GroupShape(n)>>
    \o (IF n.label # "" THEN <<Text(n.label, n.x, n.y, LabelFontSize(bbox, st))>>
        ELSE <<>>)

RECURSIVE MapGroups(_, _, _)
MapGroups(ns, bbox, st) ==
    IF ns = <<>> THEN <<>>
    ELSE GroupElements(Head(ns), bbox, st) \o MapGroups(Tail(ns), bbox, st)

\* A point in half units, and the outcome of a throw.
Position(x2, y2) == [ok |-> TRUE, x2 |-> x2, y2 |-> y2]
Thrown == [ok |-> FALSE]

\* sidePositionOf with the node's centre for a side it does not know.
sidePositionOfOrCentre(node, side) ==
    IF side = "left" THEN Position(2 * node.x, 2 * node.y + node.height)
    ELSE IF side = "right"
         THEN Position(2 * node.x + 2 * node.width, 2 * node.y + node.height)
    ELSE IF side = "top" THEN Position(2 * node.x + node.width, 2 * node.y)
    ELSE IF side = "bottom"
         THEN Position(2 * node.x + node.width, 2 * node.y + 2 * node.height)
    ELSE Position(2 * node.x + node.width, 2 * node.y + node.height)

\* sidePositionOf(node, side): the centre moved by the radius towards the
\* side, in half units; any other side throws.
sidePositionOf(node, side) ==
    IF side = "left" THEN Position(2 * node.x, 2 * node.y + node.height)
    ELSE IF side = "right"
         THEN Position(2 * node.x + 2 * node.width, 2 * node.y + node.height)
    ELSE IF side = "top" THEN Position(2 * node.x + node.width, 2 * node.y)
    ELSE IF side = "bottom"
         THEN Position(2 * node.x + node.width, 2 * node.y + 2 * node.height)
    ELSE Thrown

\* linkAnchor(side): the d3 link generator for a side
linkAnchor(side) ==
    IF side = "left" \/ side = "right" THEN "linkHorizontal" ELSE "linkVertical"

fromPos(ns, e) == sidePositionOf(NodeGet(ns, e.from.node), e.from.side)
toPos(ns, e) == sidePositionOf(NodeGet(ns, e.to.node), e.to.side)

\* The callback of edges.forEach throws before it appends anything.
EdgeThrows(ns, e) == ~fromPos(ns, e).ok \/ ~toPos(ns, e).ok

\* The path appended to minimap_fg for an edge.
EdgePath(ns, e) ==
    Path(linkAnchor(e.fromSide),
         <<fromPos(ns, e).x2, fromPos(ns, e).y2>>,
         <<toPos(ns, e).x2, toPos(ns, e).y2>>)

RECURSIVE EdgePaths(_, _)
\* edges.forEach: the paths appended until an edge throws
EdgePaths(ns, es) ==
    IF es = <<>> THEN <<>>
    ELSE IF EdgeThrows(ns, Head(es)) THEN <<>>
    ELSE <<EdgePath(ns, Head(es))>> \o EdgePaths(ns, Tail(es))

\* renderMinimap ends in the error of sidePositionOf.
RenderThrows(ns, es) == \E i \in 1..Len(es) : EdgeThrows(ns, es[i])

\* The elements appended to minimap_fg: the groups, then the children, each in
\* the node map's order, then the edges in the edge map's order.
ForegroundShapes(ns, es, st) ==
    MapGroups(SelectSeq(ns, IsGroup), AggregateBounds(ns), st)
    \o MapShapes(SelectSeq(ns, IsChild), "child")
    \o EdgePaths(ns, es)

\* The viewport rect appended to minimap_bg at the end of renderMinimap.
ViewportRect == Rect("minimap_viewport", 0, 0, 0, 0, "none")

\* renderMinimap(svg, canvas): sets the viewBox and appends minimap_bg and
\* minimap_fg to whatever the svg already holds; the viewport rect is appended
\* last, when no edge has thrown.
RenderedSvg(svg, ns, es, st) ==
    [exists |-> TRUE,
     viewBox |-> ViewBoxOf(ContentBounds(ns, st.margin)),
     layers |-> svg.layers
                \o <<Group("minimap_bg",
                           IF RenderThrows(ns, es) THEN <<>> ELSE <<ViewportRect>>),
                     Group("minimap_fg", ForegroundShapes(ns, es, st))>>]

----------------------------------------------------------------------------
(* Viewport tracker: renderCanvasViewport *)

IsViewportRect(r) == r.id = "minimap_viewport"
HasViewportRect(g) == \E i \in 1..Len(g.children) : IsViewportRect(g.children[i])

\* The attributes renderCanvasViewport sets on the selected rect.
OverlayRect(canvas_bbox) ==
    Rect("minimap_viewport", canvas_bbox.minX, canvas_bbox.minY,
         canvas_bbox.maxX - canvas_bbox.minX, canvas_bbox.maxY - canvas_bbox.minY,
         "azure")

\* The children of a group with its first viewport rect overwritten.
WithOverlay(children, canvas_bbox) ==
    LET k == CHOOSE i \in 1..Len(children) :
                 /\ IsViewportRect(children[i])
                 /\ \A j \in 1..(i - 1) : ~IsViewportRect(children[j])
    IN [children EXCEPT ![k] = OverlayRect(canvas_bbox)]

RECURSIVE UpdateViewport(_, _)
\* svg.select('#minimap_viewport').attr(...): select() takes the first match in
\* document order; an empty selection changes nothing.
UpdateViewport(layers, canvas_bbox) ==
    IF layers = <<>> THEN <<>>
    ELSE IF HasViewportRect(Head(layers))
         THEN <<Group(Head(layers).id,
                      WithOverlay(Head(layers).children, canvas_bbox))>>
              \o Tail(layers)
         ELSE <<Head(layers)>> \o UpdateViewport(Tail(layers), canvas_bbox)

\* RenderCanvasViewport with selectAll('rect') in place of
\* select('#minimap_viewport'): every rect takes the viewport's attributes.
RenderCanvasViewportAllRects(svg, canvas_bbox, drawActiveViewport) ==
    IF ~drawActiveViewport THEN svg
    ELSE IF ~svg.exists THEN svg
    ELSE [svg EXCEPT !.layers =
             [k \in 1..Len(@) |->
                 Group(@[k].id,
                       [j \in 1..Len(@[k].children) |->
                           [OverlayRect(canvas_bbox)
                               EXCEPT !.id = svg.layers[k].children[j].id]])]]

\* renderCanvasViewport(canvas) on the surface of the canvas's container
RenderCanvasViewport(svg, canvas_bbox, drawActiveViewport) ==
    IF ~drawActiveViewport THEN svg
    ELSE IF ~svg.exists THEN svg
    ELSE [svg EXCEPT !.layers = UpdateViewport(svg.layers, canvas_bbox)]

----------------------------------------------------------------------------
(* Hit test and navigation: the svg click handler of setupMinimap *)

Union(a, b) ==
    BoundingBox(Min(a.minX, b.minX), Min(a.minY, b.minY),
                Max(a.maxX, b.maxX), Max(a.maxY, b.maxY))

RECURSIVE UnionAll(_, _)
UnionAll(acc, rects) ==
    IF rects = <<>> THEN acc
    ELSE UnionAll(Union(acc, fromRect(Head(rects))), Tail(rects))

\* BoundingBox.fromRect(svg.node()?.getBBox()): the union of the boxes of what
\* the svg holds (an svg without content has the box 0 0 0 0).  The curves of
\* the edges lie between node boxes and the labels start at a group's corner;
\* every node rect is inside this box whatever else it holds.
SvgBBox(svg) ==
    IF Flatten(svg.layers) = <<>> THEN DefaultBoundingBox
    ELSE UnionAll(fromRect(Head(Flatten(svg.layers))), Tail(Flatten(svg.layers)))

\* svg_nodes.filter(...): the node rects whose box contains the click point
HitShapes(svg, p) ==
    LET Hit(r) == contains(fromRect(r), p) IN SelectSeq(NodeShapes(svg), Hit)

\* A canvas handed to the handler by getActiveCanvas(): null or its node map.
NullCanvas == [present |-> FALSE, nodes |-> <<>>, edges |-> <<>>]
Canvas(ns, es) == [present |-> TRUE, nodes |-> ns, edges |-> es]

\* The click handler cannot map a hit shape to a node: active_canvas is null or
\* nodes.get(id) is undefined, and reading .nodes / .bbox of it throws.
HitUnresolved(canvas, hits) ==
    \E i \in 1..Len(hits) : ~canvas.present \/ ~HasNode(canvas.nodes, hits[i].id)

\* current_distSq of a target node
DistSq(n, p) ==
    lenSq(Vector2(NodeBBox(n).minX - p.x, NodeBBox(n).minY - p.y))

RECURSIVE NearestLastWins(_, _, _)
\* Nearest with the box replaced on a smaller or equal distance.
NearestLastWins(best, targets, p) ==
    IF targets = <<>> THEN best
    ELSE NearestLastWins(IF DistSq(Head(targets), p) <= DistSq(best, p)
                         THEN Head(targets) ELSE best,
                         Tail(targets), p)

RECURSIVE Nearest(_, _, _)
\* The loop over target_nodes: the box is replaced on a strictly smaller distance.
Nearest(best, targets, p) ==
    IF targets = <<>> THEN best
    ELSE Nearest(IF DistSq(Head(targets), p) < DistSq(best, p)
                 THEN Head(targets) ELSE best,
                 Tail(targets), p)

\* TargetNodes taking every node of the canvas, under the click or not.
TargetNodesOfCanvas(canvas, hits) == canvas.nodes

RECURSIVE TargetNodes(_, _)
\* .map((n) => active_canvas.nodes?.get(n.id)) over resolvable hits
TargetNodes(canvas, hits) ==
    IF hits = <<>> THEN <<>>
    ELSE <<NodeGet(canvas.nodes, Head(hits).id)>> \o TargetNodes(canvas, Tail(hits))

\* NavigationStrategy with the two settings exchanged.
NavigationStrategySwapped(st, ctrl) ==
    IF ctrl THEN st.primaryNavigationStrategy ELSE st.secondaryNavigationStrategy

\* Keymap.isModifier(e, 'Ctrl') ? secondary : primary
NavigationStrategy(st, ctrl) ==
    IF ctrl THEN st.secondaryNavigationStrategy ELSE st.primaryNavigationStrategy

PanTo(bbox) ==
    [fn |-> "panTo",
     x2 |-> 2 * bbox.minX + (bbox.maxX - bbox.minX),
     y2 |-> 2 * bbox.minY + (bbox.maxY - bbox.minY)]
ZoomToBbox(bbox) == [fn |-> "zoomToBbox", bbox |-> bbox]

\* The calls issued on the active canvas for the chosen box.
Navigate(strategy, bbox) ==
    IF strategy = "PAN" THEN <<PanTo(bbox)>>
    ELSE IF strategy = "ZOOM" THEN <<ZoomToBbox(bbox)>>
    ELSE <<>>

Outcome(nav, error) == [nav |-> nav, error |-> error]

\* The svg click handler: the navigation calls it issues and whether it throws.
ClickHandler(svg, canvas, p, ctrl, st) ==
    LET hits == HitShapes(svg, p)
        targets == TargetNodes(canvas, hits)
        best == Nearest(Head(targets), targets, p)
    IN IF ~contains(SvgBBox(svg), p) THEN Outcome(<<>>, FALSE)
       ELSE IF hits = <<>> THEN Outcome(<<>>, FALSE)
       ELSE IF HitUnresolved(canvas, hits) THEN Outcome(<<>>, TRUE)
       ELSE Outcome(Navigate(NavigationStrategy(st, ctrl), NodeBBox(best)), FALSE)

----------------------------------------------------------------------------
(* State *)

VARIABLES
    pluginState,     \* "loaded" between onload and onunload, then "unloaded"
    layoutReady,     \* the onLayoutReady callback has run
    activeView,      \* the active view: one of Views, or NoView
    nodes,           \* nodes[v]: the host's canvas.nodes of view v
    edges,           \* edges[v]: the host's canvas.edges of view v
    viewportBBox,    \* viewportBBox[v]: the host's canvas.getViewportBBox()
    settings,        \* this.settings
    canvas_bounds,   \* this.canvas_bounds
    canvas_patched,  \* this.canvas_patched
    wrappers,        \* wrappers around() has installed on the canvas prototype
    tickListeners,   \* CANVAS_TICK listeners registered on this.canvas_event
    surface,         \* surface[v]: the '#_minimap_' element of view v's container
    hostOps,         \* host mutations of the node maps so far
    last,            \* the last handler run: what it was and what it issued
    saved            \* the runs of the click handler kept for comparison:
                     \* the last two, the earlier first

vars == <<pluginState, layoutReady, activeView, nodes, edges, viewportBBox, settings,
          canvas_bounds, canvas_patched, wrappers, tickListeners, surface,
          hostOps, last, saved>>

hostVars == <<nodes, edges, viewportBBox, hostOps, saved>>
pluginVars == <<settings, canvas_bounds, canvas_patched, wrappers,
                tickListeners, surface>>

\* What a handler run leaves to observe: the handler, the click it served and
\* the navigation calls / exception it ended with.
Ran(op, p, ctrl, outcome) ==
    [op |-> op, p |-> p, ctrl |-> ctrl, nav |-> outcome.nav, error |-> outcome.error]
\* A handler other than the click handler: it serves no click and issues no
\* navigation call.  It is a "redraw" when it ran renderMinimap.
Quiet == Ran("event", Vector2(0, 0), FALSE, Outcome(<<>>, FALSE))
Redrawn(error) == Ran("redraw", Vector2(0, 0), FALSE, Outcome(<<>>, error))

\* The part of the state the lifecycle methods write.
Plugin == [surface |-> surface, canvas_bounds |-> canvas_bounds,
           canvas_patched |-> canvas_patched, wrappers |-> wrappers,
           tickListeners |-> tickListeners]

\* getActiveCanvas(): the canvas of the active view when that is a canvas view
GetActiveCanvas ==
    IF activeView \in Views THEN Canvas(nodes[activeView], edges[activeView])
    ELSE NullCanvas

----------------------------------------------------------------------------
(* Lifecycle: patchCanvas, unloadMinimap, setupMinimap, reloadMinimap *)

\* patchCanvas(canvas) with a canvas: one more wrapper on the prototype's
\* methods, one more CANVAS_TICK listener.
PatchCanvas(P) ==
    [P EXCEPT !.wrappers = @ + 1, !.canvas_patched = TRUE, !.tickListeners = @ + 1]

\* unloadMinimap() leaving the '#_minimap_' element in place.
UnloadMinimapKeepsSurface(P, view) ==
    IF view \in Views THEN [P EXCEPT !.tickListeners = 0] ELSE P

\* unloadMinimap(): removes the active canvas's '#_minimap_' and takes
\* onCanvasUpdate off CANVAS_TICK (Events.off drops every registration of the
\* callback); without an active canvas it does nothing.
UnloadMinimap(P, view) ==
    IF view \in Views
    THEN [P EXCEPT !.surface[view] = NoSurface, !.tickListeners = 0]
    ELSE P

\* setupMinimap() without the test of settings.enabled.
SetupMinimapUnconditional(P, view, ns, es, st) ==
    IF view \notin Views THEN P
    ELSE LET Q == PatchCanvas(P)
             svg == IF Q.surface[view].exists THEN Q.surface[view] ELSE NewSurface
         IN [Q EXCEPT !.surface[view] = RenderedSvg(svg, ns[view], es[view], st),
                      !.canvas_bounds = ContentBounds(ns[view], st.margin)]

\* setupMinimap(): with the feature enabled and a canvas active, patches the
\* canvas, creates the surface unless the container has one, and redraws.
SetupMinimap(P, view, ns, es, st) ==
    IF ~st.enabled THEN P
    ELSE IF view \notin Views THEN P
    ELSE LET Q == PatchCanvas(P)
             svg == IF Q.surface[view].exists THEN Q.surface[view] ELSE NewSurface
         IN [Q EXCEPT !.surface[view] = RenderedSvg(svg, ns[view], es[view], st),
                      !.canvas_bounds = ContentBounds(ns[view], st.margin)]

ReloadMinimap(P, view, ns, es, st) ==
    SetupMinimap(UnloadMinimap(P, view), view, ns, es, st)

\* Writes a value of the lifecycle methods back to the state.
Becomes(P) ==
    /\ surface' = P.surface
    /\ canvas_bounds' = P.canvas_bounds
    /\ canvas_patched' = P.canvas_patched
    /\ wrappers' = P.wrappers
    /\ tickListeners' = P.tickListeners

\* setupMinimap() reaches renderMinimap: the feature is on and a canvas is active.
Redraws(view, st) == st.enabled /\ view \in Views
AfterSetup(view, st) ==
    IF Redraws(view, st) THEN Redrawn(RenderThrows(nodes[view], edges[view])) ELSE Quiet

\* A run stays within MaxPatches wrappers: a handler whose setup would patch
\* the canvas once more is not taken.
MayPatch(view, st) == (st.enabled /\ view \in Views) => wrappers < MaxPatches

----------------------------------------------------------------------------
(* Handlers registered in onload, and onunload *)

\* this.app.workspace.onLayoutReady(() => this.setupMinimap())
LayoutReady ==
    /\ pluginState = "loaded"
    /\ ~layoutReady
    /\ MayPatch(activeView, settings)
    /\ layoutReady' = TRUE
    /\ Becomes(SetupMinimap(Plugin, activeView, nodes, edges, settings))
    /\ last' = AfterSetup(activeView, settings)
    /\ UNCHANGED <<pluginState, activeView, settings, hostVars>>

\* The host activates another view; 'active-leaf-change' runs reloadMinimap
\* while the plugin is loaded.
ActiveLeafChange(view) ==
    /\ view # activeView
    /\ activeView' = view
    /\ IF pluginState = "loaded"
       THEN /\ MayPatch(view, settings)
            /\ Becomes(ReloadMinimap(Plugin, view, nodes, edges, settings))
            /\ last' = AfterSetup(view, settings)
       ELSE /\ UNCHANGED <<canvas_bounds, canvas_patched, wrappers,
                           tickListeners, surface>>
            /\ last' = Quiet
    /\ UNCHANGED <<pluginState, layoutReady, settings, hostVars>>

\* workspace 'resize', vault 'modify' of the active canvas file and the
\* 'reload' command: each runs reloadMinimap.  The last two need an active
\* canvas.
Reload(trigger) ==
    /\ pluginState = "loaded"
    /\ trigger \in {"resize", "modify", "command"}
    /\ trigger # "resize" => activeView \in Views
    /\ MayPatch(activeView, settings)
    /\ Becomes(ReloadMinimap(Plugin, activeView, nodes, edges, settings))
    /\ last' = AfterSetup(activeView, settings)
    /\ UNCHANGED <<pluginState, layoutReady, activeView, settings, hostVars>>

\* saveSettings(): persists and runs reloadMinimap.
SaveSettings(st) ==
    /\ MayPatch(activeView, st)
    /\ settings' = st
    /\ Becomes(ReloadMinimap(Plugin, activeView, nodes, edges, st))
    /\ last' = AfterSetup(activeView, st)
    /\ UNCHANGED <<pluginState, layoutReady, activeView, hostVars>>

\* The 'toggle' command: with an active canvas, flips enabled and saves.
ToggleCommand ==
    /\ pluginState = "loaded"
    /\ activeView \in Views
    /\ SaveSettings([settings EXCEPT !.enabled = ~@])

\* A control of the settings tab: assigns one setting and saves.
SettingChange(key, value) ==
    /\ pluginState = "loaded"
    /\ settings[key] # value
    /\ SaveSettings([settings EXCEPT ![key] = value])

\* onunload(): unloadMinimap(), then the registered uninstallers take the
\* wrappers off the canvas prototype.
PluginUnload ==
    /\ pluginState = "loaded"
    /\ pluginState' = "unloaded"
    /\ Becomes([UnloadMinimap(Plugin, activeView) EXCEPT !.wrappers = 0])
    /\ last' = Quiet
    /\ UNCHANGED <<layoutReady, activeView, settings, hostVars>>

----------------------------------------------------------------------------
(* Viewport tick and click *)

\* The patched requestFrame of a canvas: the wrappers dispatch CANVAS_TICK and
\* each listener runs onCanvasUpdate, which is
\* renderCanvasViewport(getActiveCanvas()).  Running it again with the same
\* viewport box writes the same attributes.
CanvasTick ==
    /\ pluginState = "loaded"
    /\ wrappers > 0
    /\ tickListeners > 0
    /\ surface' = IF activeView \in Views
                  THEN [surface EXCEPT ![activeView] =
                           RenderCanvasViewport(@, viewportBBox[activeView],
                                                settings.drawActiveViewport)]
                  ELSE surface
    /\ last' = Quiet
    /\ UNCHANGED <<pluginState, layoutReady, activeView, settings, canvas_bounds,
                   canvas_patched, wrappers, tickListeners, hostVars>>

\* The renderCanvasViewport executions one requestFrame call leads to: each
\* wrapper around requestFrame calls the one below it and then dispatches
\* CANVAS_TICK once, and each dispatch runs every registration of
\* onCanvasUpdate.
TickUpdates(P) == P.wrappers * P.tickListeners

\* The patched markMoved / markViewportChanged of a canvas: the wrappers
\* dispatch CANVAS_MOVED / CANVAS_VIEWPORT_CHANGED on canvas_event, where no
\* listener is registered for them.
CanvasNotify(type) ==
    /\ pluginState = "loaded"
    /\ wrappers > 0
    /\ type \in {"CANVAS_MOVED", "CANVAS_VIEWPORT_CHANGED"}
    /\ last' = Ran(type, Vector2(0, 0), FALSE, Outcome(<<>>, FALSE))
    /\ UNCHANGED <<pluginState, layoutReady, activeView, pluginVars, hostVars>>

\* A click in the active view's container, dispatched to the svg of its
\* surface: p is d3.pointer(e), the point in the svg's user space.
ClickRun(p, ctrl) ==
    /\ activeView \in Views
    /\ surface[activeView].exists
    /\ last' = Ran("click", p, ctrl,
                   ClickHandler(surface[activeView], GetActiveCanvas, p, ctrl, settings))
    /\ UNCHANGED <<pluginState, layoutReady, activeView, pluginVars, nodes, edges,
                   viewportBBox, hostOps>>

Click(p, ctrl) == ClickRun(p, ctrl) /\ UNCHANGED saved

\* A click in the container of a view that is not the active one when the
\* handler runs: the handler of that view's svg resolves the hit shapes on
\* whatever getActiveCanvas() returns then.
ClickInactive(view, p, ctrl) ==
    /\ view \in Views
    /\ view # activeView
    /\ surface[view].exists
    /\ last' = Ran("click-inactive", p, ctrl,
                   ClickHandler(surface[view], GetActiveCanvas, p, ctrl, settings))
    /\ UNCHANGED <<pluginState, layoutReady, activeView, pluginVars, hostVars>>

\* node.bbox of the nodes the hit shapes name, in shape order: <<box>> for a
\* node of the canvas, <<>> where nodes.get(id) is undefined.
LiveBoxes(canvas, hits) ==
    [i \in 1..Len(hits) |->
        IF HasNode(canvas.nodes, hits[i].id)
        THEN <<NodeBBox(NodeGet(canvas.nodes, hits[i].id))>> ELSE <<>>]

\* What one run of the click handler read and what it issued.
ClickRecord(svg, canvas, p, ctrl, st) ==
    LET outcome == ClickHandler(svg, canvas, p, ctrl, st)
    IN [p |-> p, ctrl |-> ctrl,
        shapes |-> NodeShapes(svg),
        primary |-> st.primaryNavigationStrategy,
        secondary |-> st.secondaryNavigationStrategy,
        boxes |-> LiveBoxes(canvas, HitShapes(svg, p)),
        live |-> canvas.nodes,
        nav |-> outcome.nav,
        error |-> outcome.error]

\* A click whose run is kept next to the one before it.
ComparedClick(p, ctrl) ==
    /\ ClickRun(p, ctrl)
    /\ saved' = (IF saved = <<>> THEN <<>> ELSE <<saved[Len(saved)]>>)
                 \o <<ClickRecord(surface[activeView], GetActiveCanvas, p, ctrl,
                                  settings)>>

----------------------------------------------------------------------------
(* The host: mutations of the diagram and of its visible region *)

HostMutation ==
    /\ hostOps < MaxHostOps
    /\ hostOps' = hostOps + 1
    /\ last' = Quiet
    /\ UNCHANGED <<pluginState, layoutReady, activeView, pluginVars, edges,
                   viewportBBox, saved>>

HostAddNode(view, n) ==
    /\ ~HasNode(nodes[view], n.id)
    /\ nodes' = [nodes EXCEPT ![view] = Append(@, n)]
    /\ HostMutation

HostMoveNode(view, id, x, y) ==
    /\ HasNode(nodes[view], id)
    /\ nodes' = [nodes EXCEPT ![view] =
                    [i \in 1..Len(@) |->
                        IF @[i].id = id THEN [@[i] EXCEPT !.x = x, !.y = y] ELSE @[i]]]
    /\ nodes' # nodes
    /\ HostMutation

HostResizeNode(view, id, w, h) ==
    /\ HasNode(nodes[view], id)
    /\ nodes' = [nodes EXCEPT ![view] =
                    [i \in 1..Len(@) |->
                        IF @[i].id = id THEN [@[i] EXCEPT !.width = w, !.height = h]
                        ELSE @[i]]]
    /\ nodes' # nodes
    /\ HostMutation

HostRemoveNode(view, id) ==
    /\ HasNode(nodes[view], id)
    /\ nodes' = [nodes EXCEPT ![view] = LET Keep(n) == n.id # id IN SelectSeq(@, Keep)]
    /\ HostMutation

\* The user pans or zooms the main view: getViewportBBox() changes.
HostPan(view, box) ==
    /\ viewportBBox[view] # box
    /\ viewportBBox' = [viewportBBox EXCEPT ![view] = box]
    /\ last' = Quiet
    /\ UNCHANGED <<pluginState, layoutReady, activeView, pluginVars, nodes, edges,
                   hostOps, saved>>

----------------------------------------------------------------------------
(* Specifications *)

\* The visible regions the host moves between.
ViewportBoxes == {BoundingBox(0, 0, 2, 2), BoundingBox(1, 0, 2, 1)}

\* DEFAULT_SETTINGS with the persisted values of loadSettings() over it
Settings(enabled, margin, draw, primary, secondary) ==
    [enabled |-> enabled, margin |-> margin, drawActiveViewport |-> draw,
     primaryNavigationStrategy |-> primary,
     secondaryNavigationStrategy |-> secondary,
     width |-> DefaultWidth, height |-> DefaultHeight, fontSize |-> DefaultFontSize]

\* No run of the click handler has been kept.
NoRun == <<>>

\* The state after onload: nothing drawn, nothing patched.
LoadedWith(view, ns, es, st) ==
    /\ pluginState = "loaded"
    /\ layoutReady = FALSE
    /\ activeView = view
    /\ nodes = ns
    /\ edges = es
    /\ viewportBBox = [v \in Views |-> BoundingBox(0, 0, 2, 2)]
    /\ settings = st
    /\ canvas_bounds = DefaultBoundingBox
    /\ canvas_patched = FALSE
    /\ wrappers = 0
    /\ tickListeners = 0
    /\ surface = [v \in Views |-> NoSurface]
    /\ hostOps = 0
    /\ last = Quiet
    /\ saved = NoRun

\* The state after onload with diagrams that have no edges.
Loaded(view, ns, st) == LoadedWith(view, ns, [v \in Views |-> <<>>], st)

\* Lifecycle: two diagram views.  The user edits and pans the diagram of view
\* "A", whose nodes sit at (0,0) or (1,1); the diagram of view "B" is left alone.
EditedViews == {"A"}
DiagonalNodes == {Node(id, c, c, 1, 1) : id \in NodeIds, c \in {0, 1}}
InitNodeMaps == {<<>>, <<Node("a", 1, 1, 1, 1)>>,
                 <<Node("a", 0, 0, 1, 1), Node("g", 0, 0, 1, 1)>>}

Init ==
    \E view \in Views \cup {NoView}, ns \in InitNodeMaps, enabled \in BOOLEAN :
        Loaded(view, [v \in Views |-> IF v \in EditedViews THEN ns
                                      ELSE <<Node("a", 1, 1, 1, 1)>>],
               Settings(enabled, 0, TRUE, "ZOOM", "PAN"))

Next ==
    \/ LayoutReady
    \/ \E view \in Views \cup {NoView} : ActiveLeafChange(view)
    \/ \E trigger \in {"resize", "modify", "command"} : Reload(trigger)
    \/ ToggleCommand
    \/ \E draw \in BOOLEAN : SettingChange("drawActiveViewport", draw)
    \/ PluginUnload
    \/ CanvasTick
    \/ \E x \in {1, 2} : Click(Vector2(x, x), FALSE)
    \/ \E view \in EditedViews, n \in DiagonalNodes : HostAddNode(view, n)
    \/ \E view \in EditedViews, n \in DiagonalNodes : HostMoveNode(view, n.id, n.x, n.y)
    \/ \E view \in EditedViews, id \in NodeIds : HostRemoveNode(view, id)
    \/ \E view \in EditedViews, box \in ViewportBoxes : HostPan(view, box)

Spec == Init /\ [][Next]_vars

\* Geometry: one diagram view, "A", active from the start.  Its nodes start
\* anywhere on the grid; afterwards the host moves, resizes or removes the
\* leaf node.  Clicks land on the grid right of and above the origin, or
\* beyond every node.
GridNodes == {Node("a", x, y, 1, 1) : x \in Xs, y \in Ys}
             \cup {Node("g", x, y, 1, 2) : x \in Xs, y \in Ys}
\* The leaf was added before the group when the diagram has both.
GridNodeMaps ==
    {<<>>} \cup {<<n>> : n \in GridNodes}
           \cup {<<pr[1], pr[2]>> :
                     pr \in {q \in GridNodes \X GridNodes :
                                q[1].id = "a" /\ q[2].id = "g"}}
ClickPoints == {Vector2(x, y) : x \in {0, 1}, y \in {1, 2}}
               \cup {Vector2(MaxCoord + 3, 4)}
StrategyPairs == {<<"ZOOM", "PAN">>, <<"PAN", "NONE">>, <<"NONE", "ZOOM">>}

\* The default margin and strategies, and no margin with each strategy pair.
GeomSettings ==
    {Settings(TRUE, DefaultMargin, TRUE, "ZOOM", "PAN")}
    \cup {Settings(TRUE, 0, TRUE, sp[1], sp[2]) : sp \in StrategyPairs}

InitGeom ==
    \E ns \in GridNodeMaps, st \in GeomSettings :
        Loaded("A", [v \in Views |-> IF v = "A" THEN ns ELSE <<>>], st)

NextGeom ==
    \/ Reload("modify")
    \/ \E p \in ClickPoints, ctrl \in BOOLEAN : Click(p, ctrl)
    \/ HostMoveNode("A", "a", 0, 0)
    \/ HostResizeNode("A", "a", 1, 2)
    \/ HostRemoveNode("A", "a")

SpecGeom == InitGeom /\ [][NextGeom]_vars

\* Runs of the click handler: view "A" shows a leaf and a group; between two
\* clicks the host may move, resize or remove the leaf, the surface may be
\* redrawn and the primary strategy may be changed in the settings tab.
RunNodeMaps == {<<Node("a", 1, 1, 1, 1)>>,
                <<Node("a", 0, 0, 1, 1), Node("g", 1, 0, 1, 2)>>}
RunClickPoints == {Vector2(1, 1), Vector2(1, 2)}

InitRuns ==
    \E ns \in RunNodeMaps :
        Loaded("A", [v \in Views |-> IF v = "A" THEN ns ELSE <<>>],
               Settings(TRUE, 0, TRUE, "ZOOM", "PAN"))

NextRuns ==
    \/ Reload("modify")
    \/ \E p \in RunClickPoints, ctrl \in BOOLEAN : ComparedClick(p, ctrl)
    \/ \E c \in {0, 1} : HostMoveNode("A", "a", 0, c)
    \/ HostResizeNode("A", "a", 1, 2)
    \/ HostRemoveNode("A", "a")
    \/ SettingChange("primaryNavigationStrategy", "PAN")

SpecRuns == InitRuns /\ [][NextRuns]_vars

\* Host notifications and clicks around view switches: each view shows one
\* leaf; the user switches between the views and a view that is no diagram,
\* pans, and clicks in the container of the active or of another view.
InitEvents ==
    \E view \in Views \cup {NoView} :
        Loaded(view, [v \in Views |-> <<Node("a", 1, 1, 1, 1)>>],
               Settings(TRUE, 0, TRUE, "ZOOM", "PAN"))

NextEvents ==
    \/ LayoutReady
    \/ \E view \in Views \cup {NoView} : ActiveLeafChange(view)
    \/ Reload("resize")
    \/ \E draw \in BOOLEAN : SettingChange("drawActiveViewport", draw)
    \/ PluginUnload
    \/ CanvasTick
    \/ \E type \in {"CANVAS_MOVED", "CANVAS_VIEWPORT_CHANGED"} : CanvasNotify(type)
    \/ \E view \in Views, box \in ViewportBoxes : HostPan(view, box)
    \/ Click(Vector2(1, 1), FALSE)
    \/ \E view \in Views : ClickInactive(view, Vector2(1, 1), FALSE)

SpecEvents == InitEvents /\ [][NextEvents]_vars

\* Switching: the feature is switched on and off, by the command and by the
\* settings tab, while the user moves between views, the window is resized,
\* the layout becomes ready and frames are requested.
InitSwitch ==
    \E view \in Views \cup {NoView}, enabled \in BOOLEAN :
        Loaded(view, [v \in Views |-> <<Node("a", 1, 1, 1, 1)>>],
               Settings(enabled, 0, TRUE, "ZOOM", "PAN"))

NextSwitch ==
    \/ LayoutReady
    \/ \E view \in Views \cup {NoView} : ActiveLeafChange(view)
    \/ Reload("resize")
    \/ ToggleCommand
    \/ \E enabled \in BOOLEAN : SettingChange("enabled", enabled)
    \/ PluginUnload
    \/ CanvasTick

SpecSwitch == InitSwitch /\ [][NextSwitch]_vars

\* Edges: view "A" shows a leaf and a labelled group joined by up to two
\* edges.  The first edge names any side token, known or not, and its
\* fromSide property is absent or repeats from.side; the other is well formed.
SideTokens == Sides \cup {"middle"}
EdgeNodeMaps == {<<Node("a", x, 0, 1, 1), Node("g", 1, 0, 1, 2)>> : x \in {0 - 1, 0}}
FirstEdges == {Edge("a", q[1], "g", q[2], IF q[3] THEN q[1] ELSE Undefined) :
                   q \in SideTokens \X {"left", "top", "middle"} \X BOOLEAN}
ReturnEdge == Edge("g", "bottom", "a", "right", Undefined)
EdgeMaps == {<<>>} \cup {<<e>> : e \in FirstEdges}
                  \cup {<<e, ReturnEdge>> : e \in FirstEdges}
                  \cup {<<ReturnEdge, e>> : e \in FirstEdges}

InitEdges ==
    \E ns \in EdgeNodeMaps, es \in EdgeMaps :
        LoadedWith("A", [v \in Views |-> IF v = "A" THEN ns ELSE <<>>],
                   [v \in Views |-> IF v = "A" THEN es ELSE <<>>],
                   Settings(TRUE, 0, TRUE, "ZOOM", "PAN"))

NextEdges ==
    \/ LayoutReady
    \/ Reload("modify")
    \/ HostMoveNode("A", "a", 0, 1)
    \/ CanvasTick

SpecEdges == InitEdges /\ [][NextEdges]_vars

----------------------------------------------------------------------------
(* Properties *)

\* The viewBox of a surface as a box.
ViewBoxBounds(svg) ==
    BoundingBox(svg.viewBox[1], svg.viewBox[2],
                svg.viewBox[1] + svg.viewBox[3], svg.viewBox[2] + svg.viewBox[4])

\* The last handler redrew the active view: its node map is what was drawn.
JustRedrawn == last.op = "redraw" /\ activeView \in Views
DrawnNodes == nodes[activeView]

\* Box b holds the box of node n with the margin m added on each side.
Covers(b, n, m) ==
    /\ b.minX <= n.x - m
    /\ b.minY <= n.y - m
    /\ b.maxX >= n.x + n.width + m
    /\ b.maxY >= n.y + n.height + m

\* C1: after a redraw over a non-empty node set, canvas_bounds (which is also
\* the viewBox of the redrawn surface) contains every node's box expanded by
\* the margin on each of its four sides.
C1_BoundsCoverNodes ==
    (JustRedrawn /\ DrawnNodes # <<>>) =>
        /\ \A i \in 1..Len(DrawnNodes) :
               Covers(canvas_bounds, DrawnNodes[i], settings.margin)
        /\ surface[activeView].viewBox = ViewBoxOf(canvas_bounds)

\* A redraw over two nodes, one left of the origin, with the default margin.
C1_Witness ==
    /\ JustRedrawn
    /\ Len(DrawnNodes) = 2
    /\ settings.margin = DefaultMargin
    /\ \E i \in 1..2 : DrawnNodes[i].x < 0

\* The least and greatest of a non-empty set of integers.
Least(S) == CHOOSE x \in S : \A y \in S : x <= y
Greatest(S) == CHOOSE x \in S : \A y \in S : x >= y

\* The box spanned by the nodes alone, with the margin on each side.
ExactBounds(ns, m) ==
    BoundingBox(Least({ns[i].x : i \in 1..Len(ns)}) - m,
                Least({ns[i].y : i \in 1..Len(ns)}) - m,
                Greatest({ns[i].x + ns[i].width : i \in 1..Len(ns)}) + m,
                Greatest({ns[i].y + ns[i].height : i \in 1..Len(ns)}) + m)

\* C2: after a redraw over a non-empty node set, canvas_bounds is exactly the
\* box spanned by the nodes (min x, min y, max x+width, max y+height) expanded
\* by the margin; no other point, the origin included, enlarges it.
C2_BoundsExact ==
    (JustRedrawn /\ DrawnNodes # <<>>) =>
        canvas_bounds = ExactBounds(DrawnNodes, settings.margin)

\* C3: a redraw of a diagram without nodes raises no error and leaves
\* canvas_bounds invalid (isValid() is false), whatever the margin.
C3_EmptyStaysInvalid ==
    (JustRedrawn /\ DrawnNodes = <<>>) => (~last.error /\ ~isValid(canvas_bounds))

\* The last handler served a click on the active view's surface; neither the
\* surface nor the node map has changed since.
JustClicked ==
    last.op = "click" /\ activeView \in Views /\ surface[activeView].exists
ClickedSvg == surface[activeView]

\* C4: a click whose point lies outside the content bounds of the surface
\* (its viewBox) issues no navigation call.
C4_OutsideBoundsNoNavigation ==
    (JustClicked /\ ~contains(ViewBoxBounds(ClickedSvg), last.p)) => last.nav = <<>>

\* The drawn node shapes under point p, in shape order, and their nodes.
Hits(p) == HitShapes(ClickedSvg, p)
Resolvable(p) ==
    \A i \in 1..Len(Hits(p)) : HasNode(nodes[activeView], Hits(p)[i].id)
HitNode(p, i) == NodeGet(nodes[activeView], Hits(p)[i].id)
\* Squared distance from p to the corner (minX, minY) of a node's box.
CornerDistSq(n, p) == (n.x - p.x) * (n.x - p.x) + (n.y - p.y) * (n.y - p.y)

\* The candidate expected to win: the first in shape order among those at the
\* least distance.
ExpectedIndex(p) ==
    CHOOSE k \in 1..Len(Hits(p)) :
        /\ \A j \in 1..Len(Hits(p)) :
               CornerDistSq(HitNode(p, k), p) <= CornerDistSq(HitNode(p, j), p)
        /\ \A j \in 1..(k - 1) :
               CornerDistSq(HitNode(p, j), p) > CornerDistSq(HitNode(p, k), p)
ExpectedBox(p) ==
    LET n == HitNode(p, ExpectedIndex(p))
    IN [minX |-> n.x, minY |-> n.y, maxX |-> n.x + n.width, maxY |-> n.y + n.height]

\* The strategy the settings name for a click.
ExpectedStrategy(ctrl) ==
    IF ctrl THEN settings.secondaryNavigationStrategy
    ELSE settings.primaryNavigationStrategy

\* A click at p whose hit shapes all have their node navigates to the expected
\* candidate's box (when the strategy navigates at all).
ResolvesToExpected(p, ctrl, nav) ==
    (Hits(p) # <<>> /\ Resolvable(p) /\ ExpectedStrategy(ctrl) # "NONE") =>
        \/ nav = <<[fn |-> "zoomToBbox", bbox |-> ExpectedBox(p)]>>
        \/ nav = <<[fn |-> "panTo",
                    x2 |-> ExpectedBox(p).minX + ExpectedBox(p).maxX,
                    y2 |-> ExpectedBox(p).minY + ExpectedBox(p).maxY]>>

\* C5: a click inside exactly one drawn node shape targets that shape's node;
\* inside several, it targets the candidate whose node box corner (minX, minY)
\* is nearest to the click, the first in shape order when distances are equal.
C5_HitResolution ==
    JustClicked => ResolvesToExpected(last.p, last.ctrl, last.nav)

\* A click inside two shapes whose nodes' corners are equally far from it.
C5_Witness ==
    /\ JustClicked
    /\ Len(Hits(last.p)) = 2
    /\ Resolvable(last.p)
    /\ HitNode(last.p, 1) # HitNode(last.p, 2)
    /\ CornerDistSq(HitNode(last.p, 1), last.p) = CornerDistSq(HitNode(last.p, 2), last.p)
    /\ last.nav # <<>>

\* The calls a resolved click issues under its strategy.
DispatchesByStrategy(p, ctrl, nav) ==
    (Hits(p) # <<>> /\ Resolvable(p)) =>
        /\ ExpectedStrategy(ctrl) = "PAN" =>
               nav = <<[fn |-> "panTo",
                        x2 |-> ExpectedBox(p).minX + ExpectedBox(p).maxX,
                        y2 |-> ExpectedBox(p).minY + ExpectedBox(p).maxY]>>
        /\ ExpectedStrategy(ctrl) = "ZOOM" =>
               nav = <<[fn |-> "zoomToBbox", bbox |-> ExpectedBox(p)]>>
        /\ ExpectedStrategy(ctrl) = "NONE" => nav = <<>>

\* C6: a click that resolves to a target box uses the secondary strategy when
\* Ctrl is held and the primary one otherwise; PAN issues exactly one panTo
\* with the box's centre (here in half units) and nothing else, ZOOM exactly
\* one zoomToBbox with the box and nothing else, NONE no call.
C6_StrategyDispatch ==
    JustClicked => DispatchesByStrategy(last.p, last.ctrl, last.nav)

\* A Ctrl-click on a shape with PAN as the secondary strategy and another
\* primary one: one panTo was issued.
C6_Witness ==
    /\ JustClicked
    /\ Hits(last.p) # <<>>
    /\ Resolvable(last.p)
    /\ last.ctrl
    /\ settings.secondaryNavigationStrategy = "PAN"
    /\ settings.primaryNavigationStrategy = "ZOOM"
    /\ Len(last.nav) = 1
    /\ last.nav[1].fn = "panTo"

\* Two kept runs of the click handler agree on the click (point and modifier),
\* on the node shapes drawn in the svg and on the strategy settings.
SameClickShapesSettings(r1, r2) ==
    /\ r1.p = r2.p
    /\ r1.ctrl = r2.ctrl
    /\ r1.shapes = r2.shapes
    /\ r1.primary = r2.primary
    /\ r1.secondary = r2.secondary

\* C7 as stated: two runs with the same click, the same drawn shape set and
\* the same strategy settings issue the same navigation call with the same
\* box, whatever the host's live node boxes are in the two runs.
C7_PureInDrawnShapes ==
    (Len(saved) = 2 /\ SameClickShapesSettings(saved[1], saved[2])) =>
        saved[1].nav = saved[2].nav

\* C7 amended: two runs with the same click, the same drawn shape set, the
\* same strategy settings and the same live boxes of the nodes whose shapes
\* lie under the click issue the same navigation call with the same box, or
\* both fail; the box is the live one, so a node moved or resized since the
\* last redraw changes the call.
C7_PureInShapesAndLiveBoxes ==
    (/\ Len(saved) = 2
     /\ SameClickShapesSettings(saved[1], saved[2])
     /\ saved[1].boxes = saved[2].boxes) =>
        (saved[1].nav = saved[2].nav /\ saved[1].error = saved[2].error)

\* Two navigating runs that agree on click, shapes, settings and the live
\* boxes under the click, with a node elsewhere moved between them.
C7_Witness ==
    /\ Len(saved) = 2
    /\ SameClickShapesSettings(saved[1], saved[2])
    /\ saved[1].boxes = saved[2].boxes
    /\ saved[1].live # saved[2].live
    /\ saved[1].nav # <<>>
    /\ saved[2].nav = saved[1].nav

\* The surface of view v keeps its frame over a step: it exists as before with
\* the same viewBox, the same layers and in each layer the same rects, except
\* that a viewport rect may have other attributes.
FrameKept(v) ==
    /\ surface'[v].exists = surface[v].exists
    /\ surface'[v].viewBox = surface[v].viewBox
    /\ Len(surface'[v].layers) = Len(surface[v].layers)
    /\ \A k \in 1..Len(surface[v].layers) :
           /\ surface'[v].layers[k].id = surface[v].layers[k].id
           /\ Len(surface'[v].layers[k].children) = Len(surface[v].layers[k].children)
           /\ \A j \in 1..Len(surface[v].layers[k].children) :
                  \/ surface'[v].layers[k].children[j] = surface[v].layers[k].children[j]
                  \/ /\ IsViewportRect(surface[v].layers[k].children[j])
                     /\ IsViewportRect(surface'[v].layers[k].children[j])

\* C8: a viewport tick never redraws: it changes at most the attributes of a
\* viewport overlay rect and leaves canvas_bounds, the viewBox, the layers and
\* every node shape of every surface as they were.
C8_TickKeepsFrame ==
    [][CanvasTick =>
          /\ canvas_bounds' = canvas_bounds
          /\ \A v \in Views : FrameKept(v)
          /\ \A v \in Views : NodeShapes(surface'[v]) = NodeShapes(surface[v])]_vars

\* The overlay rect of the active view's surface.
ActiveOverlay ==
    LET rects == Flatten(surface[activeView].layers)
    IN rects[CHOOSE i \in 1..Len(rects) : IsViewportRect(rects[i])]

\* A tick has placed the overlay on the panned viewport of a surface that
\* shows node shapes.
C8_Witness ==
    /\ activeView \in Views
    /\ surface[activeView].exists
    /\ NodeShapes(surface[activeView]) # <<>>
    /\ viewportBBox[activeView] = BoundingBox(1, 0, 2, 1)
    /\ ActiveOverlay = Rect("minimap_viewport", 1, 0, 1, 1, "azure")

\* The number of rects or layers of a sequence that carry the id.
CountId(seq, id) == Cardinality({i \in 1..Len(seq) : seq[i].id = id})

\* One surface drawn once for node map ns: one background and one foreground
\* layer, one viewport overlay, one shape per node.
DrawnOnce(svg, ns) ==
    /\ svg.exists
    /\ CountId(svg.layers, "minimap_bg") = 1
    /\ CountId(svg.layers, "minimap_fg") = 1
    /\ CountId(Flatten(svg.layers), "minimap_viewport") = 1
    /\ Len(NodeShapes(svg)) = Len(ns)
    /\ \A i \in 1..Len(ns) : CountId(NodeShapes(svg), ns[i].id) = 1

\* C9: setupMinimap run on a view that already has a surface, with no
\* teardown before it (the onLayoutReady callback after a reload), leaves one
\* surface drawn once and installs no further tick listener or host patch.
C9_SetupIdempotent ==
    [][(LayoutReady /\ settings.enabled /\ activeView \in Views
                    /\ surface[activeView].exists) =>
          /\ DrawnOnce(surface'[activeView], nodes[activeView])
          /\ tickListeners' = tickListeners
          /\ wrappers' = wrappers]_vars

\* C10: whatever handlers have run, an overview surface exists on at most the
\* active view, and on no view once the plugin is unloaded: every teardown
\* trigger leaves the view that held the surface without one.
C10_SurfaceOnlyOnActiveView ==
    \A v \in Views :
        surface[v].exists => (v = activeView /\ pluginState = "loaded")

\* C11: unloadMinimap, run in any state of the loaded plugin, leaves no wrapper
\* of patchCanvas on the host canvas's methods and no CANVAS_TICK listener,
\* whether or not a diagram view is active.
C11_TeardownDetaches ==
    pluginState = "loaded" =>
        /\ UnloadMinimap(Plugin, activeView).wrappers = 0
        /\ UnloadMinimap(Plugin, activeView).tickListeners = 0

\* C19: once a handler has run with the feature disabled, the active diagram
\* view has no overview surface, and the handler has created no surface on
\* any view.
C19_DisabledHasNoSurface ==
    [][(pluginState' = "loaded" /\ ~settings'.enabled) =>
          /\ activeView' \in Views => ~surface'[activeView'].exists
          /\ \A v \in Views : surface'[v].exists => surface[v].exists]_vars

\* The feature was switched off on a view that showed a surface, which is
\* gone, while another view still holds one.
C19_Witness ==
    /\ pluginState = "loaded"
    /\ ~settings.enabled
    /\ activeView \in Views
    /\ canvas_patched
    /\ ~surface[activeView].exists
    /\ \E v \in Views : surface[v].exists

\* C20: a click completes normally in every interleaving of host mutations,
\* redraws and clicks: when it lands on a drawn shape whose id is not a key of
\* the active canvas's node map it navigates nowhere and raises no error.
C20_ClickCompletes ==
    (JustClicked /\ Hits(last.p) # <<>> /\ ~Resolvable(last.p)) =>
        (last.nav = <<>> /\ ~last.error)

\* C17: with a surface on the active view and drawActiveViewport on, every
\* viewport-change notification of the host (CANVAS_MOVED and
\* CANVAS_VIEWPORT_CHANGED as well as CANVAS_TICK) leaves the overlay rect
\* holding the host's current visible-region box.
C17_NotificationUpdatesOverlay ==
    [][(/\ CanvasTick \/ \E type \in {"CANVAS_MOVED", "CANVAS_VIEWPORT_CHANGED"} :
                           CanvasNotify(type)
        /\ activeView \in Views
        /\ surface[activeView].exists
        /\ settings.drawActiveViewport) =>
          ActiveOverlay' = OverlayRect(viewportBBox[activeView])]_vars

\* C18: a handler that runs while no diagram view is active creates and
\* removes no surface, issues no navigation call and raises no error.
C18_NoViewIsQuiet ==
    [][activeView' \notin Views =>
          (surface' = surface /\ last'.nav = <<>> /\ ~last'.error)]_vars

\* The elements of a surface other than viewport rects, in document order.
IsContent(e) == e.id # "minimap_viewport"
Content(svg) == SelectSeq(Elements(svg.layers), IsContent)

\* C12: with the feature enabled and a diagram view active, a reload that
\* completes leaves a surface drawn once for the current nodes (one shape per
\* node carrying its id, one viewport overlay) with the viewBox of the current
\* content bounds, whatever the surface held before; a reload right after a
\* redraw of the same nodes, edges and settings yields the same viewBox and
\* the same shapes.
C12_ReloadCleanSlate ==
    [][(/\ \E trigger \in {"resize", "modify", "command"} : Reload(trigger)
        /\ settings.enabled
        /\ activeView \in Views
        /\ ~last'.error) =>
          /\ DrawnOnce(surface'[activeView], nodes[activeView])
          /\ surface'[activeView].viewBox =
                 ViewBoxOf(ContentBounds(nodes[activeView], settings.margin))
          /\ (/\ last.op = "redraw"
              /\ ~last.error
              /\ DrawnOnce(surface[activeView], nodes[activeView])) =>
                 /\ surface'[activeView].viewBox = surface[activeView].viewBox
                 /\ Content(surface'[activeView]) = Content(surface[activeView])]_vars

\* A second reload, after the host moved a node, has redrawn a diagram with
\* an edge.
C12_Witness ==
    /\ JustRedrawn
    /\ ~last.error
    /\ ~layoutReady
    /\ wrappers = 2
    /\ hostOps = 1
    /\ edges[activeView] # <<>>
    /\ DrawnOnce(surface[activeView], nodes[activeView])

\* The paths of the pass drawn last.
IsPath(e) == e.tag = "path"
LastPaths == SelectSeq(surface[activeView].layers[Len(surface[activeView].layers)].children,
                       IsPath)
DrawnEdges == edges[activeView]
EndNode(end) == NodeGet(nodes[activeView], end.node)

\* The midpoint of a side of a node's box, in half units.
Midpoint(n, side) ==
    CASE side = "left" -> <<2 * n.x, 2 * n.y + n.height>>
      [] side = "right" -> <<2 * (n.x + n.width), 2 * n.y + n.height>>
      [] side = "top" -> <<2 * n.x + n.width, 2 * n.y>>
      [] side = "bottom" -> <<2 * n.x + n.width, 2 * (n.y + n.height)>>

\* An edge names a side outside left / right / top / bottom.
BadEdge(e) == e.from.side \notin Sides \/ e.to.side \notin Sides
BadEdges == {i \in 1..Len(DrawnEdges) : BadEdge(DrawnEdges[i])}

\* C13: after a redraw every drawn edge runs between the midpoints of the
\* named sides of its end nodes; when an edge names any other side token the
\* redraw ends in an error and neither that edge nor a later one is drawn.
C13_UnknownSideFails ==
    JustRedrawn =>
        /\ last.error = (BadEdges # {})
        /\ Len(LastPaths) = IF BadEdges = {} THEN Len(DrawnEdges)
                             ELSE Least(BadEdges) - 1
        /\ \A k \in 1..Len(LastPaths) :
               /\ LastPaths[k].source =
                      Midpoint(EndNode(DrawnEdges[k].from), DrawnEdges[k].from.side)
               /\ LastPaths[k].target =
                      Midpoint(EndNode(DrawnEdges[k].to), DrawnEdges[k].to.side)

\* A redraw drew the first edge and ended in an error on the second.
C13_Witness ==
    /\ JustRedrawn
    /\ last.error
    /\ Len(DrawnEdges) = 2
    /\ Len(LastPaths) = 1

\* C14: every drawn edge is made by the horizontal link generator when the
\* side its source anchor was computed from is left or right, and by the
\* vertical one when that side is top or bottom.
C14_CurveFollowsAnchorSide ==
    JustRedrawn =>
        \A k \in 1..Len(LastPaths) :
            LastPaths[k].family =
                IF DrawnEdges[k].from.side \in {"left", "right"}
                THEN "linkHorizontal" ELSE "linkVertical"

\* The place of an element in the stack: group rects and their labels, leaf
\* rects, edges, the viewport overlay.
StackRank(e) ==
    IF e.id = "minimap_viewport" THEN 4
    ELSE IF e.tag = "path" THEN 3
    ELSE IF e.tag = "rect" /\ e.fill = "nodeColor" THEN 2
    ELSE 1

\* C15: after a redraw that completes on a fresh surface the elements are in
\* paint order groups, leaves, edges, viewport overlay: no element is painted
\* after one that belongs above it.
C15_OverlayTopmost ==
    (JustRedrawn /\ ~last.error /\ Len(surface[activeView].layers) = 2) =>
        \A i, j \in 1..Len(Elements(surface[activeView].layers)) :
            StackRank(Elements(surface[activeView].layers)[i])
              < StackRank(Elements(surface[activeView].layers)[j]) => i < j

\* The scale that projects the content bounds onto the surface.
ProjectionScale ==
    MinFrac(<<settings.width, width(canvas_bounds)>>,
            <<settings.height, height(canvas_bounds)>>)
IsText(e) == e.tag = "text"
Labels == SelectSeq(Elements(surface[activeView].layers), IsText)

\* C16: after a redraw the font size of every group label is
\* settings.fontSize divided by the projection scale
\* min(width / content width, height / content height) of the
\* margin-expanded content bounds.
C16_LabelScaleIsProjectionScale ==
    JustRedrawn =>
        \A k \in 1..Len(Labels) :
            Labels[k].fontSize[1] * ProjectionScale[1]
              = settings.fontSize * ProjectionScale[2] * Labels[k].fontSize[2]

\* C21: whatever setups, teardowns and reloads came before, one requestFrame
\* call of the host runs renderCanvasViewport at most once.
C21_OneUpdatePerTick ==
    [][CanvasTick => TickUpdates(Plugin) <= 1]_vars

====
